---- MODULE Spec2Model ----
(***************************************************************************)
(* Model of the expense report generator (src/main.py): the Python side    *)
(* that turns the ledger into DATA.records and MEMBERS, and the page's     *)
(* script: the main table, the detail panel with its pies, the ANTE choice *)
(* list, the member weight inputs and the reimbursement algorithm          *)
(* compute_reimbursements_and_render.                                      *)
(*                                                                         *)
(* Numbers.  Amounts and SUM_GAIN are integers (euros).  A weight input    *)
(* holds an integer number of hundredths ("0.50" is 50).  Every quotient   *)
(* the script forms is kept as an exact fraction [n, d] in lowest terms,   *)
(* and a division by zero yields NaN as it does in the script.  Floating   *)
(* point rounding is not modelled.                                         *)
(*                                                                         *)
(* Strings.  Strings are atomic values; the string functions the code      *)
(* applies (toLowerCase, the id sanitising replace, includes, sort) are    *)
(* given by their value on every string of the model's alphabet.           *)
(***************************************************************************)
EXTENDS Integers, Sequences, FiniteSets, TLC

VARIABLES
    records,        \* DATA.records: the ledger rows, fixed once the page is generated
    SUM_GAIN,       \* the gain pool imported from infos, fixed
    ante_gran,      \* the checked radio input[name="ante_gran"]
    checked,        \* values of the checked boxes of #ante_choice_container
    weight_inputs,  \* the values of the weight inputs, in MEMBERS order
    reimb,          \* what the last compute_reimbursements_and_render computed and rendered
    main_table,     \* the groups and rows build_main_table put in #main_table_container
    detail          \* #subtype_detail_panel: its table, the checked pie radio, the pies drawn

vars == <<records, SUM_GAIN, ante_gran, checked, weight_inputs, reimb, main_table, detail>>

---------------------------------------------------------------------------
(* Bounds of the model *)

\* the longest ledger
MaxRecords == 2

\* the largest factor by which a weight vector is scaled
MaxScale == 3

\* the longest ledger the tables and pies are built from
MaxRows == 3

---------------------------------------------------------------------------
(* JavaScript numbers, as exact fractions *)

Abs(x) == IF x < 0 THEN -x ELSE x

Min(a, b) == IF a < b THEN a ELSE b

Max(a, b) == IF a > b THEN a ELSE b

RECURSIVE GCD(_, _)
GCD(a, b) == IF b = 0 THEN a ELSE GCD(b, a % b)

\* the value of x / 0
NaN == [n |-> 0, d |-> 0]

\* n / d
Rat(n, d) ==
    IF d = 0 THEN NaN
    ELSE LET s == IF d < 0 THEN -1 ELSE 1
             g == GCD(Abs(n), Abs(d))
         IN  [n |-> (s * n) \div g, d |-> (s * d) \div g]

IntR(i) == [n |-> i, d |-> 1]

RMul(a, b) == IF a = NaN \/ b = NaN THEN NaN ELSE Rat(a.n * b.n, a.d * b.d)

RAdd(a, b) == IF a = NaN \/ b = NaN THEN NaN ELSE Rat(a.n * b.d + b.n * a.d, a.d * b.d)

RSub(a, b) == IF a = NaN \/ b = NaN THEN NaN ELSE Rat(a.n * b.d - b.n * a.d, a.d * b.d)

RDiv(a, b) == IF a = NaN \/ b = NaN \/ b.n = 0 THEN NaN ELSE Rat(a.n * b.d, a.d * b.n)

\* x || 0
OrZero(x) == IF x = NaN \/ x.n = 0 THEN IntR(0) ELSE x

RECURSIVE SumSeq(_)
SumSeq(s) == IF s = <<>> THEN 0 ELSE Head(s) + SumSeq(Tail(s))

RECURSIVE RSumSeq(_)
RSumSeq(s) == IF s = <<>> THEN IntR(0) ELSE RAdd(Head(s), RSumSeq(Tail(s)))

Range(s) == { s[i] : i \in 1..Len(s) }

---------------------------------------------------------------------------
(* The ledger *)

Rec(t, st, nm, a, m) ==
    [spent_type |-> t, spent_subtype |-> st, spent_name |-> nm, amount |-> a, member |-> m]

\* The rows a ledger of the model is drawn from, in file order.  Rows 1 and 2
\* are the two-record scenario of the specification; row 3 is a refund; row 4
\* has every string field empty; rows 5 and 6 have members whose weight input
\* ids coincide, and row 5 a type that differs from 'asso' by case only.
Pool ==
    << Rec("perso", "instrument", "archet", 100, "A"),
       Rec("asso", "corep", "flyer", 50, "B"),
       Rec("perso", "vetement", "robes", -49, "A"),
       Rec("", "", "", 30, ""),
       Rec("Asso", "corep", "flyer", 20, "A b"),
       Rec("autre", "divers", "the", 7, "A-b"),
       Rec("asso", "divers", "bombes", 8, "Lucie") >>

RECURSIVE Pick(_, _)
Pick(S, i) ==
    IF i > Len(Pool) THEN <<>>
    ELSE (IF i \in S THEN <<Pool[i]>> ELSE <<>>) \o Pick(S, i + 1)

Ledgers ==
    { Pick(S, 1) : S \in { T \in SUBSET (1..Len(Pool)) : Cardinality(T) <= MaxRecords } }

\* the values of SUM_GAIN
Gains == {0, 40, 120}

\* what a user types in a weight input, in hundredths
WeightValues == {-50, 0, 50, 100}

Grans == {"type", "subtype", "name"}

\* what the user of the page types in a weight input, in hundredths
PageWeightValues == {0, 100}

\* the ledgers the page is opened on: those whose members are A and B at most
PageLedgers == { l \in Ledgers : \A i \in 1..Len(l) : l[i].member \in {"", "A", "B"} }

---------------------------------------------------------------------------
(* compute_aggregates *)

\* the member names of the model in the order of Python's sorted()
MemberOrder == <<"A", "A b", "A-b", "B", "Lucie">>

\* members = sorted([m for m in df['member_clean'].unique() if str(m).strip() != ''])
Members(recs) ==
    SelectSeq(MemberOrder, LAMBDA m : \E i \in 1..Len(recs) : recs[i].member = m)

---------------------------------------------------------------------------
(* build_ante_choice_ui *)

\* r.spent_type || '(no type)', r.spent_subtype || '(no subtype)', r.spent_name || '(no name)'
ChoiceItem(r, gran) ==
    IF gran = "type" THEN (IF r.spent_type = "" THEN "(no type)" ELSE r.spent_type)
    ELSE IF gran = "subtype"
         THEN (IF r.spent_subtype = "" THEN "(no subtype)" ELSE r.spent_subtype)
         ELSE (IF r.spent_name = "" THEN "(no name)" ELSE r.spent_name)

\* the values of the check boxes renderChoices(gran) creates
ChoiceItems(recs, gran) == { ChoiceItem(recs[i], gran) : i \in 1..Len(recs) }

\* String.prototype.toLowerCase on the type values of the model
ToLowerCase(s) == IF s = "Asso" THEN "asso" ELSE s

\* the type values of the model in the order of Array.prototype.sort
TypeOrder == <<"(no type)", "Asso", "asso", "autre", "perso">>

\* targets.find(x => x.value.toLowerCase() === 'asso'): the first such box, checked
DefaultChecked(recs) ==
    LET boxes == SelectSeq(TypeOrder, LAMBDA t : t \in ChoiceItems(recs, "type"))
        hits  == SelectSeq(boxes, LAMBDA t : ToLowerCase(t) = "asso")
    IN  IF hits = <<>> THEN {} ELSE {Head(hits)}

\* the boxes checked once renderChoices(gran) has run
RenderChoices(recs, gran) == IF gran = "type" THEN DefaultChecked(recs) ELSE {}

---------------------------------------------------------------------------
(* default_weights and build_member_weight_inputs *)

\* nm.includes('helene') || nm.includes('hélène') || nm.includes('lucie'), nm the lower-cased name
HasDefaultShare(m) == m = "Lucie"

default_weights(members) ==
    LET w == [m \in Range(members) |-> IF HasDefaultShare(m) THEN Rat(1, 2) ELSE IntR(0)]
        s == RSumSeq([i \in 1..Len(members) |-> w[members[i]]])
    IN  IF s.n > 0
        THEN [m \in Range(members) |-> RDiv(w[m], s)]
        ELSE [m \in Range(members) |-> Rat(1, Len(members))]

\* val.toFixed(2), in hundredths
ToFixed2(x) == (200 * x.n + x.d) \div (2 * x.d)

build_member_weight_inputs(members, defaultWeights) ==
    [i \in 1..Len(members) |-> ToFixed2(defaultWeights[members[i]])]

\* 'weight_' + m.replace(/[^a-zA-Z0-9]/g, '_')
weightId(m) ==
    CASE m = "A"     -> "weight_A"
      [] m = "A b"   -> "weight_A_b"
      [] m = "A-b"   -> "weight_A_b"
      [] m = "B"     -> "weight_B"
      [] m = "Lucie" -> "weight_Lucie"

\* document.getElementById(id): the first input of the page with that id
getElementById(members, id) ==
    CHOOSE i \in 1..Len(members) :
        /\ weightId(members[i]) = id
        /\ \A j \in 1..(i - 1) : weightId(members[j]) # id

---------------------------------------------------------------------------
(* fmtMoney *)

\* the text fmtMoney(x) returns: <<>> for '', else <<sign, cents>> for "-12,34 €"
fmtMoney(x) ==
    IF x = NaN \/ 200 * Abs(x.n) < x.d THEN <<>>
    ELSE << IF x.n < 0 THEN "-" ELSE "",
            Abs((200 * x.n + x.d) \div (2 * x.d)) >>

---------------------------------------------------------------------------
(* compute_reimbursements_and_render *)

\* weights[m] = parseFloat(document.getElementById(id).value) || 0
readWeights(members, inputs) ==
    [m \in Range(members) |-> inputs[getElementById(members, weightId(m))]]

\* wsum
WeightSum(members, w) == SumSeq([i \in 1..Len(members) |-> w[members[i]]])

\* normalizeWeights with the guard wsum<0: a zero sum is divided by
normalizeWeightsZeroSum(members, w) ==
    IF WeightSum(members, w) < 0
    THEN [m \in Range(members) |-> Rat(1, Len(members))]
    ELSE [m \in Range(members) |-> Rat(w[m], WeightSum(members, w))]

\* normalizeWeights taking the uniform branch whatever the sum
normalizeWeightsUniform(members, w) ==
    [m \in Range(members) |-> Rat(1, Len(members))]

\* normalizeWeights without the division by wsum: the inputs taken as fractions of 1
normalizeWeightsUnscaled(members, w) ==
    IF WeightSum(members, w) <= 0
    THEN [m \in Range(members) |-> Rat(1, Len(members))]
    ELSE [m \in Range(members) |-> Rat(w[m], 100)]

\* if (wsum<=0) ... weights[m]=1.0/MEMBERS.length; else ... weights[k]=weights[k]/wsum
normalizeWeights(members, w) ==
    IF WeightSum(members, w) <= 0
    THEN [m \in Range(members) |-> Rat(1, Len(members))]
    ELSE [m \in Range(members) |-> Rat(w[m], WeightSum(members, w))]

\* key = (gran==='type') ? r.spent_type : (gran==='subtype' ? r.spent_subtype : r.spent_name)
AnteKey(r, gran) ==
    IF gran = "type" THEN r.spent_type
    ELSE IF gran = "subtype" THEN r.spent_subtype ELSE r.spent_name

\* isAnte[idx] = selected.has(key)
IsAnte(recs, gran, selected) ==
    [idx \in 1..Len(recs) |-> AnteKey(recs[idx], gran) \in selected]

\* AmountOf dropping refunds
AmountOfClamped(r) == Max(r.amount, 0)

\* r.amount||0
AmountOf(r) == r.amount

RECURSIVE SumAmounts(_, _)
SumAmounts(recs, I) ==
    IF I = {} THEN 0
    ELSE LET i == CHOOSE j \in I : TRUE
         IN  AmountOf(recs[i]) + SumAmounts(recs, I \ {i})

\* total_ante (want = TRUE) and total_post (want = FALSE)
TotalOf(recs, isAnte, want) ==
    SumAmounts(recs, {i \in 1..Len(recs) : isAnte[i] = want})

\* ante_totals_by_member (want = TRUE) and post_totals_by_member (want = FALSE):
\* a key for every member of MEMBERS, and for the member of every record added
TotalsByMember(members, recs, isAnte, want) ==
    LET I == {i \in 1..Len(recs) : isAnte[i] = want}
    IN  [m \in Range(members) \cup {recs[i].member : i \in I} |->
            SumAmounts(recs, {i \in I : recs[i].member = m})]

\* CoveredAnte without the cap at the gain
CoveredAnteUncapped(gain, total_ante) == total_ante

\* covered_ante = Math.min(SUM_GAIN, total_ante)
CoveredAnte(gain, total_ante) == Min(gain, total_ante)

\* remaining_gain = Math.max(SUM_GAIN - covered_ante, 0)
RemainingGain(gain, covered_ante) == Max(gain - covered_ante, 0)

\* Object.values(f).reduce((a,b)=>a+b,0)
RECURSIVE SumValues(_)
SumValues(f) ==
    IF DOMAIN f = {} THEN 0
    ELSE LET k == CHOOSE x \in DOMAIN f : TRUE
         IN  f[k] + SumValues([x \in (DOMAIN f) \ {k} |-> f[x]])

\* allocated_ante without the test total_ante_contrib > 0
AllocatedAnteUnguarded(members, ante_totals_by_member, covered_ante) ==
    [m \in Range(members) |->
        RMul(IntR(covered_ante),
             Rat(ante_totals_by_member[m], SumValues(ante_totals_by_member)))]

\* allocated_ante
AllocatedAnte(members, ante_totals_by_member, covered_ante) ==
    LET total_ante_contrib == SumValues(ante_totals_by_member)
    IN  IF total_ante_contrib > 0
        THEN [m \in Range(members) |->
                RMul(IntR(covered_ante), Rat(ante_totals_by_member[m], total_ante_contrib))]
        ELSE [m \in Range(members) |-> IntR(0)]

\* part_after_ante rounded down to whole euros
PartAfterAnteFloored(members, remaining_gain, weights) ==
    [m \in Range(members) |->
        IntR(RMul(IntR(remaining_gain), OrZero(weights[m])).n
               \div RMul(IntR(remaining_gain), OrZero(weights[m])).d)]

\* part_after_ante[m] = remaining_gain * (weights[m] || 0)
PartAfterAnte(members, remaining_gain, weights) ==
    [m \in Range(members) |-> RMul(IntR(remaining_gain), OrZero(weights[m]))]

\* FinalAfterPost clamped at zero
FinalAfterPostClamped(partAfter, totalPost) ==
    IF RSub(partAfter, IntR(totalPost)).n < 0 THEN IntR(0) ELSE RSub(partAfter, IntR(totalPost))

\* finalAfterPost = partAfter - totalPost
FinalAfterPost(partAfter, totalPost) == RSub(partAfter, IntR(totalPost))

\* results[m]
Results(members, ante_totals_by_member, post_totals_by_member, part_after_ante) ==
    [m \in Range(members) |->
        [total_ante |-> ante_totals_by_member[m],
         total_post |-> post_totals_by_member[m],
         total_ante_post |-> ante_totals_by_member[m] + post_totals_by_member[m],
         part_after_ante_split |-> OrZero(part_after_ante[m]),
         final_after_post |->
             FinalAfterPost(OrZero(part_after_ante[m]), post_totals_by_member[m])]]

\* the rows written to #reimb_results_body
RenderRows(members, results) ==
    [i \in 1..Len(members) |->
        LET r == results[members[i]]
        IN  << members[i],
               fmtMoney(IntR(r.total_ante)),
               fmtMoney(IntR(r.total_post)),
               fmtMoney(IntR(r.total_ante_post)),
               fmtMoney(r.part_after_ante_split),
               fmtMoney(IntR(r.total_post)),
               fmtMoney(r.final_after_post) >>]

\* the algorithm from the weights read on: every local of the function
Allocate(recs, gain, gran, selected, read) ==
    LET members == Members(recs)
        weights == normalizeWeights(members, read)
        isAnte  == IsAnte(recs, gran, selected)
        ante_by == TotalsByMember(members, recs, isAnte, TRUE)
        post_by == TotalsByMember(members, recs, isAnte, FALSE)
        total_a == TotalOf(recs, isAnte, TRUE)
        covered == CoveredAnte(gain, total_a)
        remain  == RemainingGain(gain, covered)
        part    == PartAfterAnte(members, remain, weights)
        res     == Results(members, ante_by, post_by, part)
    IN  [shown |-> TRUE,
         gran |-> gran,
         selected |-> selected,
         read |-> read,
         wsum |-> WeightSum(members, read),
         weights |-> weights,
         isAnte |-> isAnte,
         total_ante |-> total_a,
         total_post |-> TotalOf(recs, isAnte, FALSE),
         ante_totals_by_member |-> ante_by,
         post_totals_by_member |-> post_by,
         covered_ante |-> covered,
         remaining_gain |-> remain,
         allocated_ante |-> AllocatedAnte(members, ante_by, covered),
         part_after_ante |-> part,
         results |-> res,
         reimb_results_body |-> RenderRows(members, res)]

\* the table body of the page as generated, before the script has filled it
NotRendered == [shown |-> FALSE]

MEMBERS == Members(records)

\* compute_reimbursements_and_render reading the granularity radio on its
\* first run only and keeping that granularity for the later runs
compute_with_first_granularity ==
    /\ reimb' = Allocate(records, SUM_GAIN,
                         IF reimb.shown THEN reimb.gran ELSE ante_gran, checked,
                         readWeights(MEMBERS, weight_inputs))
    /\ UNCHANGED <<records, SUM_GAIN, ante_gran, checked, weight_inputs, main_table, detail>>

compute_reimbursements_and_render ==
    /\ reimb' = Allocate(records, SUM_GAIN, ante_gran, checked,
                         readWeights(MEMBERS, weight_inputs))
    /\ UNCHANGED <<records, SUM_GAIN, ante_gran, checked, weight_inputs, main_table, detail>>

---------------------------------------------------------------------------
(* The Aggregator: build_main_table *)

\* The rows the ledgers of the tables and pies are drawn from.  'corep' is a
\* subtype of three categories and 'flyer' a name of all three; the 'asso'
\* rows come with the smaller total first; row 4 has no member, row 5 is a
\* refund, row 6 a type that differs from 'asso' by case only, row 7 has every
\* string field empty.
AggregatorPool ==
    << Rec("autre", "corep", "flyer", 7, "A"),
       Rec("perso", "corep", "flyer", 20, "A"),
       Rec("asso", "corep", "flyer", 50, "B"),
       Rec("asso", "divers", "the", 80, ""),
       Rec("perso", "corep", "affiche", -49, "B"),
       Rec("Asso", "divers", "the", 8, "B"),
       Rec("", "", "", 30, "A") >>

\* the one-to-one sequences of length n over 1..k
Arrangements(n, k) ==
    { p \in [1..n -> 1..k] : \A i, j \in 1..n : i # j => p[i] # p[j] }

\* ledgers of at most MaxRows rows of the pool, in any file order
AggregatorLedgers ==
    UNION { { [i \in 1..n |-> AggregatorPool[p[i]]] : p \in Arrangements(n, Len(AggregatorPool)) }
            : n \in 0..MaxRows }

\* the keys of an object in insertion order: the elements of s, each once
RECURSIVE ObjectKeys(_)
ObjectKeys(s) ==
    IF s = <<>> THEN <<>>
    ELSE LET front == ObjectKeys(SubSeq(s, 1, Len(s) - 1))
             last  == s[Len(s)]
         IN  IF last \in Range(front) THEN front ELSE Append(front, last)

\* r.amount||0 summed over a list of records
SumOf(rs) == SumSeq([i \in 1..Len(rs) |-> AmountOf(rs[i])])

\* rowKey = r.spent_subtype || '(no subtype)'
RowKey(r) == IF r.spent_subtype = "" THEN "(no subtype)" ELSE r.spent_subtype

\* byType[t][rowKey]: totals by r.member||'' and total of the records of the pair
MainRow(recs, t, rowKey) ==
    LET rs == SelectSeq(recs, LAMBDA r : r.spent_type = t /\ RowKey(r) = rowKey)
    IN  [ rowKey     |-> rowKey,
          spent_type |-> t,
          totals     |-> [m \in { rs[i].member : i \in 1..Len(rs) } |->
                             SumOf(SelectSeq(rs, LAMBDA r : r.member = m))],
          total      |-> SumOf(rs) ]

\* Object.values(byType[t]): the rows of a type in insertion order
ByType(recs, t) ==
    LET rs   == SelectSeq(recs, LAMBDA r : r.spent_type = t)
        keys == ObjectKeys([i \in 1..Len(rs) |-> RowKey(rs[i])])
    IN  [k \in 1..Len(keys) |-> MainRow(recs, t, keys[k])]

\* the type values of the model in the order of String.prototype.localeCompare
LocaleOrder == <<"", "asso", "Asso", "autre", "perso">>

LocaleRank(s) == CHOOSE i \in 1..Len(LocaleOrder) : LocaleOrder[i] = s

\* a.localeCompare(b)
localeCompare(a, b) ==
    IF LocaleRank(a) < LocaleRank(b) THEN -1
    ELSE IF LocaleRank(a) > LocaleRank(b) THEN 1 ELSE 0

\* the comparator of line 363 that pins 'perso' ahead of 'asso'
TypeCompareSwapped(a, b) ==
    IF ToLowerCase(a) = "perso" THEN -1
    ELSE IF ToLowerCase(b) = "perso" THEN 1
    ELSE IF ToLowerCase(a) = "asso" THEN -1
    ELSE IF ToLowerCase(b) = "asso" THEN 1
    ELSE localeCompare(a, b)

\* the comparator of line 363
TypeCompare(a, b) ==
    IF ToLowerCase(a) = "asso" THEN -1
    ELSE IF ToLowerCase(b) = "asso" THEN 1
    ELSE IF ToLowerCase(a) = "perso" THEN -1
    ELSE IF ToLowerCase(b) = "perso" THEN 1
    ELSE localeCompare(a, b)

\* Object.keys(byType).sort(comparator): every order the sort can return.  The
\* comparator answers -1 both ways for two keys that lower-case to 'asso' (or
\* to 'perso'), and the order of such keys is then the engine's choice.
SortTypes(keys) ==
    { [i \in 1..Len(keys) |-> keys[p[i]]] :
        p \in { q \in Arrangements(Len(keys), Len(keys)) :
                  \A i, j \in 1..Len(keys) :
                      i < j => TypeCompare(keys[q[i]], keys[q[j]]) <= 0 } }

\* rows.sort((a,b)=>b.total - a.total) leaving the rows as they were inserted
SortRowsUnsorted(rows) == rows

\* rows.sort((a,b)=>b.total - a.total): descending total, ties in insertion order
SortRows(rows) ==
    LET p == CHOOSE q \in Arrangements(Len(rows), Len(rows)) :
                 \A i, j \in 1..Len(rows) :
                     i < j => \/ rows[q[i]].total > rows[q[j]].total
                              \/ /\ rows[q[i]].total = rows[q[j]].total
                                 /\ q[i] < q[j]
    IN  [i \in 1..Len(rows) |-> rows[p[i]]]

\* the group of a type: its header, its rows sorted, its subtotal
MainGroup(recs, t) ==
    LET rows == SortRows(ByType(recs, t))
    IN  [ spent_type |-> t,
          rows       |-> rows,
          subtotal   |-> SumSeq([i \in 1..Len(rows) |-> rows[i].total]) ]

\* the tables build_main_table can render
build_main_table(recs) ==
    { [g \in 1..Len(order) |-> MainGroup(recs, order[g])] :
        order \in SortTypes(ObjectKeys([i \in 1..Len(recs) |-> recs[i].spent_type])) }

\* #main_table_container of the page as generated, before build_main_table
MainTableNotBuilt == <<>>

\* grandTotal
GrandTotal(table) == SumSeq([g \in 1..Len(table) |-> table[g].subtotal])

---------------------------------------------------------------------------
(* The Aggregator: show_subtype_detail and make_plots *)

\* allRecs = DATA.records.filter(r => r.spent_subtype === subtype)
AllRecs(recs, subtype) == SelectSeq(recs, LAMBDA r : r.spent_subtype = subtype)

\* assoRecs = allRecs.filter(r => r.spent_type === 'asso')
AssoRecs(recs, subtype) == SelectSeq(AllRecs(recs, subtype), LAMBDA r : r.spent_type = "asso")

\* persoRecs = allRecs.filter(r => r.spent_type === 'perso')
PersoRecs(recs, subtype) == SelectSeq(AllRecs(recs, subtype), LAMBDA r : r.spent_type = "perso")

\* name = r.spent_name || '(no name)'
NameKey(r) == IF r.spent_name = "" THEN "(no name)" ELSE r.spent_name

\* rowsMap[name] once allRecs.forEach has run: the else of line 403 adds every
\* record whose type is not 'asso' to parts.perso
DetailRow(allRecs, name) ==
    LET rs == SelectSeq(allRecs, LAMBDA r : NameKey(r) = name)
    IN  [ name   |-> name,
          totals |-> [m \in { rs[i].member : i \in 1..Len(rs) } |->
                         SumOf(SelectSeq(rs, LAMBDA r : r.member = m))],
          total  |-> SumOf(rs),
          parts  |-> [ asso  |-> SumOf(SelectSeq(rs, LAMBDA r : r.spent_type = "asso")),
                       perso |-> SumOf(SelectSeq(rs, LAMBDA r : r.spent_type # "asso")) ] ]

\* rows = Object.values(rowsMap)
DetailRows(recs, subtype) ==
    LET allRecs == AllRecs(recs, subtype)
        names   == ObjectKeys([i \in 1..Len(allRecs) |-> NameKey(allRecs[i])])
    IN  [k \in 1..Len(names) |-> DetailRow(allRecs, names[k])]

\* sums[r.member] = (sums[r.member]||0) + r.amount, read as sums[m]||0
PieSum(recs, m) == SumSeq([i \in 1..Len(recs) |-> IF recs[i].member = m THEN recs[i].amount ELSE 0])

\* a pie: its slices in MEMBERS order, the opacity of its colours in hundredths,
\* its trace name; with no slice the div holds a text instead of a plot
Pie(labels, vals, alpha, title) ==
    [labels |-> labels, vals |-> vals, alpha |-> alpha, name |-> title]

\* buildPie with the test (sums[m]||0) !== 0
buildPieNonZero(recs, title, members) ==
    LET labels == SelectSeq(members, LAMBDA m : PieSum(recs, m) # 0)
    IN  Pie(labels, [i \in 1..Len(labels) |-> PieSum(recs, labels[i])], 90, title)

\* buildPie(recs, title) of mode 'two'
buildPie(recs, title, members) ==
    LET labels == SelectSeq(members, LAMBDA m : PieSum(recs, m) > 0)
    IN  Pie(labels, [i \in 1..Len(labels) |-> PieSum(recs, labels[i])], 90, title)

PieModes == {"combined", "only_asso", "only_perso", "two"}

\* make_plots(mode): the pies put in #detail_plot
make_plots(recs, subtype, members, mode) ==
    IF mode = "two"
    THEN << buildPie(AssoRecs(recs, subtype), "asso", members),
            buildPie(PersoRecs(recs, subtype), "perso", members) >>
    ELSE LET rs     == IF mode = "combined"
                       THEN AssoRecs(recs, subtype) \o PersoRecs(recs, subtype)
                       ELSE IF mode = "only_asso" THEN AssoRecs(recs, subtype)
                            ELSE PersoRecs(recs, subtype)
             labels == SelectSeq(members, LAMBDA m : PieSum(rs, m) > 0)
         IN  << Pie(labels, [i \in 1..Len(labels) |-> PieSum(rs, labels[i])], 95, "") >>

\* the panel before any row is clicked: display:none, radio 'combined' checked
DetailHidden == [shown |-> FALSE, detail_pie_mode |-> "combined"]

\* the panel once show_subtype_detail(spent_type, subtype) has run with the
\* radio standing on pie_mode: it draws make_plots('combined') whatever the radio
ShowSubtypeDetail(recs, members, spent_type, subtype, pie_mode) ==
    [ shown           |-> TRUE,
      spent_type      |-> spent_type,
      subtype         |-> subtype,
      rows            |-> DetailRows(recs, subtype),
      detail_pie_mode |-> pie_mode,
      mode            |-> "combined",
      plots           |-> make_plots(recs, subtype, members, "combined") ]

---------------------------------------------------------------------------
(* The page: init and the user's actions on the reimbursement panel.  The   *)
(* clicks on the main table and on the pie radios are further down; the two  *)
(* panels have no state in common, and NextAggregator explores the second.   *)

\* the state once init() has run
Init ==
    /\ records \in PageLedgers
    /\ SUM_GAIN \in Gains
    /\ ante_gran = "type"
    /\ checked = RenderChoices(records, "type")
    /\ weight_inputs = build_member_weight_inputs(MEMBERS, default_weights(MEMBERS))
    /\ reimb = Allocate(records, SUM_GAIN, ante_gran, checked,
                        readWeights(MEMBERS, weight_inputs))
    /\ main_table \in build_main_table(records)
    /\ detail = DetailHidden

\* input[name="ante_gran"].onchange
renderChoices ==
    \E gran \in Grans :
        /\ gran # ante_gran
        /\ ante_gran' = gran
        /\ checked' = RenderChoices(records, gran)
        /\ UNCHANGED <<records, SUM_GAIN, weight_inputs, reimb, main_table, detail>>

\* the user checks or unchecks a box of the choice list
ToggleChoice ==
    \E it \in ChoiceItems(records, ante_gran) :
        /\ checked' = IF it \in checked THEN checked \ {it} ELSE checked \cup {it}
        /\ UNCHANGED <<records, SUM_GAIN, ante_gran, weight_inputs, reimb, main_table, detail>>

\* the user types a value in a weight input
EditWeight ==
    \E i \in 1..Len(MEMBERS), v \in PageWeightValues :
        /\ v # weight_inputs[i]
        /\ weight_inputs' = [weight_inputs EXCEPT ![i] = v]
        /\ UNCHANGED <<records, SUM_GAIN, ante_gran, checked, reimb, main_table, detail>>

\* a click on a row of the main table: show_subtype_detail(r.spent_type || t, r.rowKey)
show_subtype_detail ==
    \E g \in 1..Len(main_table) :
        \E k \in 1..Len(main_table[g].rows) :
            LET t == main_table[g].spent_type
                r == main_table[g].rows[k]
            IN  /\ detail' = ShowSubtypeDetail(records, MEMBERS,
                                               IF r.spent_type = "" THEN t ELSE r.spent_type,
                                               r.rowKey, detail.detail_pie_mode)
                /\ UNCHANGED <<records, SUM_GAIN, ante_gran, checked, weight_inputs,
                               reimb, main_table>>

\* input[name="detail_pie_mode"].onchange, set by show_subtype_detail
PieModeChange ==
    \E mode \in PieModes :
        /\ detail.shown
        /\ mode # detail.detail_pie_mode
        /\ detail' = [detail EXCEPT !.detail_pie_mode = mode,
                                    !.mode = mode,
                                    !.plots = make_plots(records, detail.subtype, MEMBERS, mode)]
        /\ UNCHANGED <<records, SUM_GAIN, ante_gran, checked, weight_inputs,
                       reimb, main_table>>

Next ==
    \/ renderChoices
    \/ ToggleChoice
    \/ EditWeight
    \/ compute_reimbursements_and_render

Spec == Init /\ [][Next]_vars

---------------------------------------------------------------------------
(* The Allocator as a function of its inputs: any ledger, gain, granularity, *)
(* selection among the boxes of the choice list and weight inputs; then the  *)
(* apply button.  The rest of the page is as generated: no result rendered,  *)
(* no main table built, the detail panel hidden.                             *)

InitAllocator ==
    /\ records \in Ledgers
    /\ main_table = MainTableNotBuilt
    /\ detail = DetailHidden
    /\ SUM_GAIN \in Gains
    /\ ante_gran \in Grans
    /\ checked \in SUBSET ChoiceItems(records, ante_gran)
    /\ weight_inputs \in [1..Len(MEMBERS) -> WeightValues]
    /\ reimb = NotRendered

NextAllocator == compute_reimbursements_and_render

SpecAllocator == InitAllocator /\ [][NextAllocator]_vars

---------------------------------------------------------------------------
(* The Aggregator on its own: the page opened on any ledger of the         *)
(* Aggregator's pool, then clicks on the rows of the main table and on the   *)
(* pie mode radios.  The reimbursement panel shares nothing with these but   *)
(* the ledger and stays as init() left it.                                   *)

InitAggregator ==
    /\ records \in AggregatorLedgers
    /\ SUM_GAIN = 0
    /\ ante_gran = "type"
    /\ checked = RenderChoices(records, "type")
    /\ weight_inputs = build_member_weight_inputs(MEMBERS, default_weights(MEMBERS))
    /\ reimb = Allocate(records, SUM_GAIN, ante_gran, checked,
                        readWeights(MEMBERS, weight_inputs))
    /\ main_table \in build_main_table(records)
    /\ detail = DetailHidden

NextAggregator ==
    \/ show_subtype_detail
    \/ PieModeChange

SpecAggregator == InitAggregator /\ [][NextAggregator]_vars

---------------------------------------------------------------------------
(* Properties.  Each is about the last run of the algorithm, reimb, and is   *)
(* stated from the ledger and from what that run read, not from its locals.  *)

\* the sum of the amounts of the records i of the ledger with P(i)
AmountsWhere(P(_)) ==
    SumSeq([i \in 1..Len(records) |-> IF P(i) THEN records[i].amount ELSE 0])

AllAmounts == AmountsWhere(LAMBDA i : TRUE)

\* the POST spending of member m: the records of m the run did not take as ANTE
PostSpending(m) ==
    AmountsWhere(LAMBDA i : records[i].member = m /\ ~reimb.isAnte[i])

\* the normalized weight of member m, from the weights the run read
NormalizedWeight(m) ==
    IF SumSeq([i \in 1..Len(MEMBERS) |-> reimb.read[MEMBERS[i]]]) > 0
    THEN Rat(reimb.read[m], SumSeq([i \in 1..Len(MEMBERS) |-> reimb.read[MEMBERS[i]]]))
    ELSE Rat(1, Len(MEMBERS))

\* C1: a record is ANTE if and only if the entry the choice list offers for its
\* value at the chosen granularity is selected (for a record with an empty
\* value that entry is '(no type)', '(no subtype)' or '(no name)'), and POST
\* otherwise.
C1_AnteIffEntrySelected ==
    reimb.shown =>
        \A idx \in 1..Len(records) :
            reimb.isAnte[idx] <=> (ChoiceItem(records[idx], reimb.gran) \in reimb.selected)

\* C1, the part the code does keep: a record with a non-empty value at the
\* chosen granularity is ANTE if and only if that value is selected.
C1_NonEmptyAnteIffSelected ==
    reimb.shown =>
        \A idx \in 1..Len(records) :
            AnteKey(records[idx], reimb.gran) # "" =>
                (reimb.isAnte[idx] <=> (AnteKey(records[idx], reimb.gran) \in reimb.selected))

\* C2: the per-member ANTE totals plus the per-member POST totals add up to
\* the sum of all record amounts, refunds and unattributed records included;
\* so do total_ante and total_post; the unattributed member has no result row,
\* and the rows add up to the sum of all amounts less the unattributed ones.
C2_PartitionTotality ==
    reimb.shown =>
        /\ SumValues(reimb.ante_totals_by_member) + SumValues(reimb.post_totals_by_member)
               = AllAmounts
        /\ reimb.total_ante + reimb.total_post = AllAmounts
        /\ DOMAIN reimb.results = Range(MEMBERS)
        /\ "" \notin DOMAIN reimb.results
        /\ SumSeq([i \in 1..Len(MEMBERS) |->
                      reimb.results[MEMBERS[i]].total_ante + reimb.results[MEMBERS[i]].total_post])
               = AllAmounts - AmountsWhere(LAMBDA i : records[i].member = "")

\* a run over a ledger with an unattributed record and a refund, one of them
\* ANTE and the other POST
C2_Witness ==
    /\ reimb.shown
    /\ \E i \in 1..Len(records) : records[i].member = ""
    /\ \E i \in 1..Len(records) : records[i].amount < 0
    /\ \E i, j \in 1..Len(records) : reimb.isAnte[i] /\ ~reimb.isAnte[j]

\* C3: covered_ante is min(gain, total_ante) when total_ante > 0 and 0 when
\* total_ante <= 0.
C3_CoveredAnte ==
    reimb.shown =>
        reimb.covered_ante =
            (IF reimb.total_ante > 0 THEN Min(SUM_GAIN, reimb.total_ante) ELSE 0)

\* C4: covered_ante + remaining_gain = gain, remaining_gain is
\* max(gain - covered_ante, 0), and it is neither negative nor larger than gain.
C4_GainConservation ==
    reimb.shown =>
        /\ reimb.covered_ante + reimb.remaining_gain = SUM_GAIN
        /\ reimb.remaining_gain = Max(SUM_GAIN - reimb.covered_ante, 0)
        /\ reimb.remaining_gain >= 0
        /\ reimb.remaining_gain <= SUM_GAIN

\* C5: with gain = 0 and a non-empty ledger, covered_ante = 0, remaining_gain = 0,
\* every member's part_after_ante_split = 0 and final_after_post = -total_post.
C5_ZeroGain ==
    (reimb.shown /\ SUM_GAIN = 0 /\ records # <<>>) =>
        /\ reimb.covered_ante = 0
        /\ reimb.remaining_gain = 0
        /\ \A m \in Range(MEMBERS) :
              /\ reimb.results[m].part_after_ante_split = IntR(0)
              /\ reimb.results[m].final_after_post = IntR(-PostSpending(m))

\* C6: every member's final_after_post is part_after_ante_split - total_post,
\* part_after_ante_split being remaining_gain * normalized weight; nothing is
\* clamped, so POST spending above the share gives a negative final_after_post.
C6_FinalAfterPost ==
    reimb.shown =>
        \A m \in Range(MEMBERS) :
            /\ reimb.results[m].part_after_ante_split
                   = RMul(IntR(reimb.remaining_gain), NormalizedWeight(m))
            /\ reimb.results[m].total_post = PostSpending(m)
            /\ reimb.results[m].final_after_post
                   = RSub(reimb.results[m].part_after_ante_split, IntR(PostSpending(m)))

\* a member with a positive share whose POST spending exceeds it
C6_Witness ==
    /\ reimb.shown
    /\ \E m \in Range(MEMBERS) :
          /\ reimb.results[m].part_after_ante_split.n > 0
          /\ reimb.results[m].final_after_post.n < 0

\* C7: with at least one member the weights the algorithm uses sum to 1: each
\* weight read divided by their sum when the sum is positive, 1/(number of
\* members) each when it is <= 0; no weight is the result of a division by
\* zero, with or without members.  The same holds of default_weights.
C7_WeightsNormalized ==
    reimb.shown =>
        /\ DOMAIN reimb.weights = Range(MEMBERS)
        /\ \A m \in Range(MEMBERS) :
              /\ reimb.weights[m] # NaN
              /\ reimb.weights[m] = NormalizedWeight(m)
              /\ default_weights(MEMBERS)[m] # NaN
        /\ MEMBERS # <<>> =>
              /\ RSumSeq([i \in 1..Len(MEMBERS) |-> reimb.weights[MEMBERS[i]]]) = IntR(1)
              /\ RSumSeq([i \in 1..Len(MEMBERS) |-> default_weights(MEMBERS)[MEMBERS[i]]])
                     = IntR(1)

\* a run with several members whose weights sum to 0 or less
C7_Witness ==
    /\ reimb.shown
    /\ Len(MEMBERS) >= 2
    /\ reimb.wsum <= 0
    /\ \E m \in Range(MEMBERS) : reimb.read[m] # 0

\* a run without any member
C7_WitnessNoMember ==
    /\ reimb.shown
    /\ records # <<>>
    /\ MEMBERS = <<>>

\* C8 as stated: a member whose weight is 0 gets part_after_ante_split = 0 and
\* final_after_post = -total_post, whatever the other weights (all 0 included).
C8_ZeroWeightGetsNothing ==
    reimb.shown =>
        \A m \in Range(MEMBERS) :
            reimb.read[m] = 0 =>
                /\ reimb.results[m].part_after_ante_split = IntR(0)
                /\ reimb.results[m].final_after_post = IntR(-PostSpending(m))

\* C8 as amended: a member for whom the algorithm reads weight 0 gets
\* part_after_ante_split = 0 and final_after_post = -total_post when the
\* weights read sum to a positive value; when they sum to 0 or less (all 0
\* included) that member, like every other, gets remaining_gain / (number of
\* members) and final_after_post = that share - total_post.
C8_ZeroWeightAmended ==
    reimb.shown =>
        \A m \in Range(MEMBERS) :
            reimb.read[m] = 0 =>
                /\ reimb.results[m].part_after_ante_split
                       = (IF reimb.wsum > 0 THEN IntR(0)
                          ELSE Rat(reimb.remaining_gain, Len(MEMBERS)))
                /\ reimb.results[m].final_after_post
                       = RSub(reimb.results[m].part_after_ante_split, IntR(PostSpending(m)))

\* a member with weight 0 beside a member with a positive weight, gain left to split
C8_Witness ==
    /\ reimb.shown
    /\ reimb.remaining_gain > 0
    /\ reimb.wsum > 0
    /\ \E m \in Range(MEMBERS) : reimb.read[m] = 0

\* every weight 0 and gain left to split
C8_WitnessAllZero ==
    /\ reimb.shown
    /\ reimb.remaining_gain > 0
    /\ Len(MEMBERS) >= 2
    /\ \A m \in Range(MEMBERS) : reimb.read[m] = 0

\* C9: the run's part_after_ante_split and final_after_post of every member are
\* those of a run on the same records, selection and gain with every weight
\* multiplied by k, for each k in 1..MaxScale.
C9_ScaleInvariant ==
    reimb.shown =>
        \A k \in 1..MaxScale :
            LET scaled == Allocate(records, SUM_GAIN, reimb.gran, reimb.selected,
                                   [m \in Range(MEMBERS) |-> k * reimb.read[m]])
            IN  \A m \in Range(MEMBERS) :
                    /\ scaled.part_after_ante[m] = reimb.part_after_ante[m]
                    /\ scaled.results[m].part_after_ante_split
                           = reimb.results[m].part_after_ante_split
                    /\ scaled.results[m].final_after_post
                           = reimb.results[m].final_after_post

\* gain left to split between two members of different positive weights
C9_Witness ==
    /\ reimb.shown
    /\ reimb.remaining_gain > 0
    /\ reimb.wsum > 0
    /\ \E m1, m2 \in Range(MEMBERS) :
          /\ 0 < reimb.read[m1]
          /\ reimb.read[m1] < reimb.read[m2]
          /\ reimb.part_after_ante[m1] # reimb.part_after_ante[m2]

\* the scenario of C10: records [perso/A/100, asso/B/50], granularity type,
\* selection {asso}, weights A 0.5 and B 0.5, gain 40
C10_Scenario ==
    /\ Len(records) = 2
    /\ records[1].spent_type = "perso" /\ records[1].member = "A" /\ records[1].amount = 100
    /\ records[2].spent_type = "asso" /\ records[2].member = "B" /\ records[2].amount = 50
    /\ SUM_GAIN = 40
    /\ reimb.shown
    /\ reimb.gran = "type"
    /\ reimb.selected = {"asso"}
    /\ reimb.read = [m \in {"A", "B"} |-> 50]

\* C10: in that scenario total_ante = 50, covered_ante = 40, remaining_gain = 0,
\* part_after_ante_split = {A: 0, B: 0} and final_after_post = {A: -100, B: 0}.
C10_ConcreteScenario ==
    C10_Scenario =>
        /\ reimb.total_ante = 50
        /\ reimb.covered_ante = 40
        /\ reimb.remaining_gain = 0
        /\ DOMAIN reimb.results = {"A", "B"}
        /\ reimb.results["A"].part_after_ante_split = IntR(0)
        /\ reimb.results["B"].part_after_ante_split = IntR(0)
        /\ reimb.results["A"].final_after_post = IntR(-100)
        /\ reimb.results["B"].final_after_post = IntR(0)

\* the scenario of C10 has been computed
C10_Witness == C10_Scenario /\ reimb.results["A"].total_post = 100

---------------------------------------------------------------------------
(* Properties of the tables and pies.  Sums are taken over the ledger.       *)

\* the record i of the ledger is of the subcategory the detail panel shows
InShownSubtype(i) == records[i].spent_subtype = detail.subtype

\* C11: in the per-name detail of a subcategory, parts.asso of a name is the
\* sum of the name's records of category 'asso' and parts.perso the sum of its
\* records of category 'perso'; a record of any other category counts in the
\* row total but in neither part, so that over the subcategory the parts.asso,
\* the parts.perso and the amounts of the other categories add up to the
\* total of the subcategory.
C11_DetailParts ==
    detail.shown =>
        /\ \A k \in 1..Len(detail.rows) :
               LET row == detail.rows[k]
                   OfRow(i) == InShownSubtype(i) /\ NameKey(records[i]) = row.name
               IN  /\ row.total = AmountsWhere(OfRow)
                   /\ row.parts.asso =
                          AmountsWhere(LAMBDA i : OfRow(i) /\ records[i].spent_type = "asso")
                   /\ row.parts.perso =
                          AmountsWhere(LAMBDA i : OfRow(i) /\ records[i].spent_type = "perso")
        /\ SumSeq([k \in 1..Len(detail.rows) |-> detail.rows[k].parts.asso])
             + SumSeq([k \in 1..Len(detail.rows) |-> detail.rows[k].parts.perso])
             + AmountsWhere(LAMBDA i : InShownSubtype(i)
                                       /\ records[i].spent_type \notin {"asso", "perso"})
           = AmountsWhere(InShownSubtype)

\* the amount member m spent in the shown subcategory under the categories cats
SpentIn(m, cats) ==
    AmountsWhere(LAMBDA i : /\ InShownSubtype(i)
                            /\ records[i].member = m
                            /\ records[i].spent_type \in cats)

\* the categories the pie number k of mode mode is drawn from
PieCategories(mode, k) ==
    IF mode = "combined" THEN {"asso", "perso"}
    ELSE IF mode = "only_asso" \/ (mode = "two" /\ k = 1) THEN {"asso"} ELSE {"perso"}

\* C12: in pie mode 'two' the two series are, members and amounts, the series
\* of mode 'only_asso' and the series of mode 'only_perso'; and in every mode
\* a series holds exactly the members whose summed amount is strictly
\* positive, with that sum: never the empty member, never a zero or negative
\* slice.
C12_PieSeries ==
    detail.shown =>
        /\ detail.mode = "two" =>
               /\ Len(detail.plots) = 2
               /\ \A k \in 1..2 :
                      LET only == make_plots(records, detail.subtype, MEMBERS,
                                             IF k = 1 THEN "only_asso" ELSE "only_perso")[1]
                      IN  /\ detail.plots[k].labels = only.labels
                          /\ detail.plots[k].vals = only.vals
        /\ \A k \in 1..Len(detail.plots) :
               LET pie  == detail.plots[k]
                   cats == PieCategories(detail.mode, k)
               IN  /\ Len(pie.vals) = Len(pie.labels)
                   /\ \A i \in 1..Len(pie.labels) :
                          /\ pie.labels[i] # ""
                          /\ pie.vals[i] > 0
                          /\ pie.vals[i] = SpentIn(pie.labels[i], cats)
                   /\ \A m \in Range(MEMBERS) :
                          SpentIn(m, cats) > 0 => m \in Range(pie.labels)

\* two pies are drawn, both with a slice, and a member who spent under 'perso'
\* in the subcategory has no slice in the 'perso' pie
C12_Witness ==
    /\ detail.shown
    /\ detail.mode = "two"
    /\ detail.plots[1].labels # <<>>
    /\ detail.plots[2].labels # <<>>
    /\ \E i \in 1..Len(records) :
           /\ InShownSubtype(i)
           /\ records[i].spent_type = "perso"
           /\ records[i].member \notin Range(detail.plots[2].labels)

\* the place of a category in the main table: 'asso' in any case first, 'perso'
\* in any case second, every other category after
CategoryClass(t) ==
    IF ToLowerCase(t) = "asso" THEN 1 ELSE IF ToLowerCase(t) = "perso" THEN 2 ELSE 3

\* the categories of the model that are neither 'asso' nor 'perso', in
\* lexicographic order
OtherCategories == <<"", "autre">>

LexBefore(a, b) ==
    \E i, j \in 1..Len(OtherCategories) :
        i < j /\ OtherCategories[i] = a /\ OtherCategories[j] = b

\* the records of category t and subcategory row label rowKey
OfPair(t, rowKey, i) == records[i].spent_type = t /\ RowKey(records[i]) = rowKey

\* the rows of the main table: group number and row number
MainTableRows ==
    UNION { { <<g, k>> : k \in 1..Len(main_table[g].rows) } : g \in 1..Len(main_table) }

\* C13: in the main rollup every (category, subcategory) pair of the ledger is
\* exactly one row, holding the total of the pair; the category groups come
\* 'asso' first and 'perso' second, whatever the case of the letters, and the
\* other categories after them in lexicographic order; within a category the
\* subcategory rows come in descending order of their total.
C13_MainTableOrder ==
    /\ \A i \in 1..Len(records) :
           Cardinality({ gk \in MainTableRows :
                           /\ main_table[gk[1]].spent_type = records[i].spent_type
                           /\ main_table[gk[1]].rows[gk[2]].rowKey = RowKey(records[i]) }) = 1
    /\ \A g \in 1..Len(main_table) :
           /\ main_table[g].rows # <<>>
           /\ \A k \in 1..Len(main_table[g].rows) :
                  LET row == main_table[g].rows[k]
                  IN  /\ \E i \in 1..Len(records) : OfPair(main_table[g].spent_type, row.rowKey, i)
                      /\ row.total = AmountsWhere(LAMBDA i :
                                          OfPair(main_table[g].spent_type, row.rowKey, i))
           /\ \A k, l \in 1..Len(main_table[g].rows) :
                  k < l => main_table[g].rows[k].total >= main_table[g].rows[l].total
    /\ \A g, h \in 1..Len(main_table) :
           g < h =>
               /\ CategoryClass(main_table[g].spent_type) <= CategoryClass(main_table[h].spent_type)
               /\ CategoryClass(main_table[g].spent_type) = 3 =>
                      LexBefore(main_table[g].spent_type, main_table[h].spent_type)

\* the table has several groups and a group of several rows, and neither the
\* groups nor those rows stand in the order of the file
C13_Witness ==
    /\ Len(main_table) >= 2
    /\ main_table[1].spent_type # records[1].spent_type
    /\ \E g \in 1..Len(main_table) :
           /\ Len(main_table[g].rows) >= 2
           /\ \E i, j \in 1..Len(records) :
                  /\ i < j
                  /\ records[i].spent_type = main_table[g].spent_type
                  /\ records[j].spent_type = main_table[g].spent_type
                  /\ RowKey(records[j]) = main_table[g].rows[1].rowKey
                  /\ RowKey(records[i]) = main_table[g].rows[2].rowKey

---------------------------------------------------------------------------
(* Properties of the page: the reimbursement panel across user actions       *)

\* the boxes checked at the current granularity take as ANTE exactly the
\* records the displayed run took as ANTE at its granularity: the selection
\* of that run, re-expressed
SelectionReExpressed ==
    \A i \in 1..Len(records) :
        (AnteKey(records[i], ante_gran) \in checked)
            <=> (AnteKey(records[i], reimb.gran) \in reimb.selected)

\* C14: switching the granularity from type to name and back does not change
\* the reimbursement: a run made after any switches of granularity, with the
\* selection of the displayed run re-expressed at the granularity now chosen
\* and with the same weights, yields the same totals and the same per-member
\* results as the displayed run.
C14_GranularityRoundTrip ==
    [][ ( /\ reimb.shown
          /\ SelectionReExpressed
          /\ readWeights(MEMBERS, weight_inputs) = reimb.read )
        => ( /\ reimb'.results = reimb.results
             /\ reimb'.total_ante = reimb.total_ante
             /\ reimb'.total_post = reimb.total_post
             /\ reimb'.covered_ante = reimb.covered_ante
             /\ reimb'.remaining_gain = reimb.remaining_gain
             /\ reimb'.reimb_results_body = reimb.reimb_results_body ) ]_vars

\* a run at name granularity is displayed, the granularity is back on type,
\* and the boxes, no longer the default ones, re-express the selection of that
\* run, which has ANTE and POST records
C14_Witness ==
    /\ reimb.shown
    /\ reimb.gran = "name"
    /\ ante_gran = "type"
    /\ checked # RenderChoices(records, "type")
    /\ SelectionReExpressed
    /\ readWeights(MEMBERS, weight_inputs) = reimb.read
    /\ \E i, j \in 1..Len(records) : reimb.isAnte[i] /\ ~reimb.isAnte[j]

\* C15: after any sequence of user actions (changing the granularity,
\* checking or unchecking a box, editing a weight, pressing apply) the results
\* shown are the Allocator's output for the current granularity, selection and
\* weights: no result computed from earlier inputs stays displayed once one of
\* those inputs has changed.
C15_ResultsAreCurrent ==
    LET current == Allocate(records, SUM_GAIN, ante_gran, checked,
                            readWeights(MEMBERS, weight_inputs))
    IN  /\ reimb.shown
        /\ reimb.results = current.results
        /\ reimb.reimb_results_body = current.reimb_results_body

---------------------------------------------------------------------------
(* Properties of the last run, continued *)

\* the ANTE spending of member m: the records of m the run took as ANTE
AnteSpending(m) ==
    AmountsWhere(LAMBDA i : records[i].member = m /\ reimb.isAnte[i])

\* S: the sum of all per-member ANTE contributions, those of records without
\* member included
AnteContributions == AmountsWhere(LAMBDA i : reimb.isAnte[i])

\* C16: allocated_ante[m] is covered_ante * ante_member[m] / S when the sum S
\* of all per-member ANTE contributions is positive, and 0 for every member
\* otherwise, so it never comes from a division by zero; and it is not
\* consumed afterwards: part_after_ante_split is remaining_gain times the
\* normalized weight and final_after_post is that part minus the member's POST
\* spending, whatever allocated_ante is.
C16_AllocatedAnte ==
    reimb.shown =>
        /\ DOMAIN reimb.allocated_ante = Range(MEMBERS)
        /\ \A m \in Range(MEMBERS) :
               /\ reimb.allocated_ante[m] # NaN
               /\ reimb.allocated_ante[m] =
                      IF AnteContributions > 0
                      THEN Rat(reimb.covered_ante * AnteSpending(m), AnteContributions)
                      ELSE IntR(0)
               /\ reimb.results[m].part_after_ante_split =
                      RMul(IntR(reimb.remaining_gain), NormalizedWeight(m))
               /\ reimb.results[m].final_after_post =
                      RSub(reimb.results[m].part_after_ante_split, IntR(PostSpending(m)))

\* the gain covers a part only of the ANTE and two members get different,
\* non-zero allocations of it
C16_Witness ==
    /\ reimb.shown
    /\ reimb.covered_ante > 0
    /\ reimb.covered_ante < AnteContributions
    /\ \E m, o \in Range(MEMBERS) :
           /\ reimb.allocated_ante[m] # IntR(0)
           /\ reimb.allocated_ante[o] # IntR(0)
           /\ reimb.allocated_ante[m] # reimb.allocated_ante[o]

\* the run took ANTE records whose contributions sum to zero or less
C16_WitnessNoContribution ==
    /\ reimb.shown
    /\ MEMBERS # <<>>
    /\ \E i \in 1..Len(records) : reimb.isAnte[i]
    /\ AnteContributions <= 0

\* C17: whenever there is at least one member the part_after_ante_split values
\* sum to remaining_gain, and the final_after_post values sum to
\* remaining_gain minus the POST spending attributed to members: the weighted
\* split neither creates nor loses money.
C17_SplitConservesMoney ==
    (reimb.shown /\ MEMBERS # <<>>) =>
        /\ RSumSeq([i \in 1..Len(MEMBERS) |-> reimb.results[MEMBERS[i]].part_after_ante_split])
             = IntR(reimb.remaining_gain)
        /\ RSumSeq([i \in 1..Len(MEMBERS) |-> reimb.results[MEMBERS[i]].final_after_post])
             = IntR(reimb.remaining_gain
                      - SumSeq([i \in 1..Len(MEMBERS) |-> PostSpending(MEMBERS[i])]))

\* gain is left to split among two members or more, a part is not a whole
\* number, and members have POST spending
C17_Witness ==
    /\ reimb.shown
    /\ Len(MEMBERS) >= 2
    /\ reimb.remaining_gain > 0
    /\ \E m \in Range(MEMBERS) : reimb.results[m].part_after_ante_split.d # 1
    /\ \E m \in Range(MEMBERS) : PostSpending(m) # 0

====
